---------------------------- MODULE Spec2Model ----------------------------
(***************************************************************************)
(* Integer-interval algebra of the `math` crate used by saber:             *)
(*   ContiguousIntegerSet  -- a closed range [start, end]                  *)
(*   OrderedIntegerSet     -- a vector of ContiguousIntegerSet             *)
(* A range is the record [start |-> s, end |-> e]; a vector is a sequence; *)
(* an Option<T> is a sequence of length 0 (None) or 1 (Some).              *)
(* Element arithmetic is that of the mathematical integers: every value    *)
(* handled here stays inside MinVal-1 .. MaxVal+1, far from the limits of  *)
(* the element type.                                                       *)
(***************************************************************************)
EXTENDS Integers, Sequences, FiniteSets, TLC

\* ------------------------------------------------------------- bounds ---
\* element values are drawn from -MaxNeg .. MaxVal
MaxNeg == 2
MaxVal == 3
\* from_slice is given at most MaxPairs pairs over 0 .. MaxPairVal
MaxPairs == 3
MaxPairVal == 3

\* bits of the bounded element type E
Width == 2

Vals == (0 - MaxNeg)..MaxVal
\* every range over Vals, the empty ones (start > end) included
Ranges == [start : Vals, end : Vals]
\* ranks handed to slice: up to one past the largest possible size
Ranks == 0..(MaxVal + MaxNeg + 2)

\* ------------------------------------------------------ std helpers -----
min(x, y) == IF x <= y THEN x ELSE y
max(x, y) == IF x >= y THEN x ELSE y

None == <<>>
Some(v) == <<v>>

\* --------------------------------------------- ContiguousIntegerSet -----
ContiguousIntegerSet_new(s, e) == [start |-> s, end |-> e]

CIS_is_empty(r) == r.start > r.end

CIS_contains(r, item) == item >= r.start /\ item <= r.end

\* mutant: the test for disjoint ranges is missing
CIS_intersect_unchecked(r, other) ==
    IF CIS_is_empty(r) \/ CIS_is_empty(other)
    THEN None
    ELSE Some(ContiguousIntegerSet_new(max(r.start, other.start), min(r.end, other.end)))

\* mutant: the intersection keeps the start of self
CIS_intersect_keeps_start(r, other) ==
    IF CIS_is_empty(r) \/ CIS_is_empty(other) \/ other.end < r.start \/ other.start > r.end
    THEN None
    ELSE Some(ContiguousIntegerSet_new(r.start, min(r.end, other.end)))

CIS_intersect(r, other) ==
    IF CIS_is_empty(r) \/ CIS_is_empty(other)
         \/ other.end < r.start \/ other.start > r.end
    THEN None
    ELSE Some(ContiguousIntegerSet_new(max(r.start, other.start), min(r.end, other.end)))

CIS_size(r) == IF CIS_is_empty(r) THEN 0 ELSE r.end - r.start + 1

\* mutant: the + 1 is missing on one side of the test for a gap
CIS_coalesce_with_lopsided(r, other) ==
    IF CIS_is_empty(r) /\ CIS_is_empty(other) THEN None
    ELSE IF CIS_is_empty(r) THEN Some(other)
    ELSE IF CIS_is_empty(other) THEN Some(r)
    ELSE IF r.start > other.end + 1 \/ r.end < other.start THEN None
    ELSE Some(ContiguousIntegerSet_new(min(r.start, other.start), max(r.end, other.end)))

\* mutant: adjacent ranges are not merged, only overlapping ones
CIS_coalesce_with_overlap_only(r, other) ==
    IF CIS_is_empty(r) /\ CIS_is_empty(other) THEN None
    ELSE IF CIS_is_empty(r) THEN Some(other)
    ELSE IF CIS_is_empty(other) THEN Some(r)
    ELSE IF r.start > other.end \/ r.end < other.start THEN None
    ELSE Some(ContiguousIntegerSet_new(min(r.start, other.start), max(r.end, other.end)))

\* mutant: an empty self is returned in place of the other operand
CIS_coalesce_with_returns_self(r, other) ==
    IF CIS_is_empty(r) /\ CIS_is_empty(other) THEN None
    ELSE IF CIS_is_empty(r) THEN Some(r)
    ELSE IF CIS_is_empty(other) THEN Some(r)
    ELSE IF r.start > other.end + 1 \/ r.end + 1 < other.start THEN None
    ELSE Some(ContiguousIntegerSet_new(min(r.start, other.start), max(r.end, other.end)))

\* mutant: ranges one integer apart are merged as well
CIS_coalesce_with_wide(r, other) ==
    IF CIS_is_empty(r) /\ CIS_is_empty(other) THEN None
    ELSE IF CIS_is_empty(r) THEN Some(other)
    ELSE IF CIS_is_empty(other) THEN Some(r)
    ELSE IF r.start > other.end + 2 \/ r.end + 2 < other.start THEN None
    ELSE Some(ContiguousIntegerSet_new(min(r.start, other.start), max(r.end, other.end)))

\* Coalesce<Self>
CIS_coalesce_with(r, other) ==
    IF CIS_is_empty(r) /\ CIS_is_empty(other) THEN None
    ELSE IF CIS_is_empty(r) THEN Some(other)
    ELSE IF CIS_is_empty(other) THEN Some(r)
    ELSE IF r.start > other.end + 1 \/ r.end + 1 < other.start THEN None
    ELSE Some(ContiguousIntegerSet_new(min(r.start, other.start), max(r.end, other.end)))

\* mutant: a point one past the neighbouring integer is merged as well
CIS_coalesce_with_point_wide(r, item) ==
    IF CIS_is_empty(r) THEN Some(ContiguousIntegerSet_new(item, item))
    ELSE IF r.start > item + 2 \/ r.end + 2 < item THEN None
    ELSE Some(ContiguousIntegerSet_new(min(r.start, item), max(r.end, item)))

\* mutant: the merged range reaches one past the point
CIS_coalesce_with_point_past(r, item) ==
    IF CIS_is_empty(r) THEN Some(ContiguousIntegerSet_new(item, item))
    ELSE IF r.start > item + 1 \/ r.end + 1 < item THEN None
    ELSE Some(ContiguousIntegerSet_new(min(r.start, item), max(r.end, item + 1)))

\* Coalesce<E>
CIS_coalesce_with_point(r, item) ==
    IF CIS_is_empty(r) THEN Some(ContiguousIntegerSet_new(item, item))
    ELSE IF r.start > item + 1 \/ r.end + 1 < item THEN None
    ELSE Some(ContiguousIntegerSet_new(min(r.start, item), max(r.end, item)))

\* mutant: the exclusive upper rank is taken as inclusive
CIS_slice_inclusive(lo, hi, input) ==
    IF lo >= hi \/ lo >= CIS_size(input) THEN None
    ELSE Some(ContiguousIntegerSet_new(input.start + lo, input.start + hi))

\* mutant: the lower rank is not tested against the size
CIS_slice_unbounded(lo, hi, input) ==
    IF lo >= hi THEN None
    ELSE Some(ContiguousIntegerSet_new(input.start + lo, input.start + hi - 1))

\* Range<usize>::slice on a ContiguousIntegerSet
CIS_slice(lo, hi, input) ==
    IF lo >= hi \/ lo >= CIS_size(input) THEN None
    ELSE Some(ContiguousIntegerSet_new(input.start + lo, input.start + hi - 1))

\* ------------------------------------------ Vec<ContiguousIntegerSet> ---
\* Vec::insert(i, x) and Vec::remove(i), 1-based
VecInsert(v, i, x) == SubSeq(v, 1, i - 1) \o <<x>> \o SubSeq(v, i, Len(v))
VecRemove(v, i) == SubSeq(v, 1, i - 1) \o SubSeq(v, i + 1, Len(v))

\* stable sort by start
RECURSIVE InsertByStart(_, _)
InsertByStart(sorted, x) ==
    IF sorted = <<>> THEN <<x>>
    ELSE IF sorted[Len(sorted)].start <= x.start THEN Append(sorted, x)
    ELSE Append(InsertByStart(SubSeq(sorted, 1, Len(sorted) - 1), x), sorted[Len(sorted)])

RECURSIVE SortByStart(_)
SortByStart(v) ==
    IF v = <<>> THEN <<>>
    ELSE InsertByStart(SortByStart(SubSeq(v, 1, Len(v) - 1)), v[Len(v)])

\* merge each range into the last range kept while coalesce_with succeeds
RECURSIVE MergeNeighbors(_, _)
MergeNeighbors(acc, rest) ==
    IF rest = <<>> THEN acc
    ELSE IF acc = <<>> THEN MergeNeighbors(<<rest[1]>>, Tail(rest))
    ELSE LET m == CIS_coalesce_with(acc[Len(acc)], rest[1])
         IN IF m = None
            THEN MergeNeighbors(Append(acc, rest[1]), Tail(rest))
            ELSE MergeNeighbors([acc EXCEPT ![Len(acc)] = m[1]], Tail(rest))

\* CoalesceIntervals for Vec<I>: sort by start, then merge neighbours
Vec_coalesce_intervals_inplace(v) == MergeNeighbors(<<>>, SortByStart(v))

\* CoalesceIntervals::into_coalesced on a Vec
Vec_into_coalesced(v) == Vec_coalesce_intervals_inplace(v)

\* ------------------------------------------------ OrderedIntegerSet -----
OrderedIntegerSet_new == <<>>

\* mutant: the empty intervals are left in place
remove_empty_intervals_kept(v) == v

remove_empty_intervals(v) == SelectSeq(v, LAMBDA i : ~CIS_is_empty(i))

into_non_empty_intervals(v) == remove_empty_intervals(v)

\* CoalesceIntervals for OrderedIntegerSet
OIS_coalesce_intervals_inplace(v) ==
    Vec_coalesce_intervals_inplace(remove_empty_intervals(v))

\* CoalesceIntervals::into_coalesced on an OrderedIntegerSet
OIS_into_coalesced(v) == OIS_coalesce_intervals_inplace(v)

\* pairs are given as a sequence of <<start, end>>
from_slice(slice) ==
    OIS_into_coalesced([k \in 1..Len(slice) |->
                           ContiguousIntegerSet_new(slice[k][1], slice[k][2])])

from_contiguous_integer_sets(sets) == Vec_into_coalesced(sets)

\* the caller asserts that sets is sorted and coalesced: it is taken as it is
from_ordered_coalesced_contiguous_integer_sets(sets) == sets

\* From<Vec<ContiguousIntegerSet>> for OrderedIntegerSet
OIS_from(v) == OIS_into_coalesced(v)

\* mutant: length() (end - start) is summed in place of size()
RECURSIVE SumLengths(_)
SumLengths(v) ==
    IF v = <<>> THEN 0
    ELSE (IF CIS_is_empty(v[1]) THEN 0 ELSE v[1].end - v[1].start) + SumLengths(Tail(v))

OIS_size_by_length(v) == SumLengths(v)

RECURSIVE SumSizes(_)
SumSizes(v) == IF v = <<>> THEN 0 ELSE CIS_size(v[1]) + SumSizes(Tail(v))

OIS_size(v) == SumSizes(v)

OIS_contains(v, item) ==
    \/ (Len(v) > 0 /\ CIS_contains(v[1], item))
    \/ (Len(v) > 0 /\ CIS_contains(v[Len(v)], item))
    \/ Cardinality({k \in 1..Len(v) : CIS_contains(v[k], item)}) > 0

OIS_intersect(v, other) ==
    LET RECURSIVE Inner(_, _)
        Inner(i, js) ==
            IF js = <<>> THEN <<>>
            ELSE CIS_intersect(i, js[1]) \o Inner(i, Tail(js))
        RECURSIVE Outer(_)
        Outer(is) ==
            IF is = <<>> THEN <<>>
            ELSE Inner(is[1], other) \o Outer(Tail(is))
    IN from_contiguous_integer_sets(Outer(v))

\* Collecting::collect, the scan over the intervals from index i (1-based)
RECURSIVE collect_scan(_, _, _)
collect_scan(v, item, i) ==
    IF i > Len(v) THEN Append(v, ContiguousIntegerSet_new(item, item))
    ELSE IF item + 1 < v[i].start
    THEN VecInsert(v, i, ContiguousIntegerSet_new(item, item))
    ELSE LET c == CIS_coalesce_with_point(v[i], item)
         IN IF c = None THEN collect_scan(v, item, i + 1)
            ELSE LET replaced == [v EXCEPT ![i] = c[1]]
                     merged == IF i + 1 <= Len(v)
                               THEN CIS_coalesce_with(c[1], v[i + 1])
                               ELSE None
                 IN IF merged = None THEN replaced
                    ELSE VecRemove([replaced EXCEPT ![i] = merged[1]], i + 1)

\* Collecting::collect: the special case on the last interval, then the scan
collect(v, item) ==
    IF Len(v) > 0 /\ item > v[Len(v)].end + 1
    THEN Append(v, ContiguousIntegerSet_new(item, item))
    ELSE IF Len(v) > 0 /\ CIS_coalesce_with_point(v[Len(v)], item) # None
    THEN [v EXCEPT ![Len(v)] = CIS_coalesce_with_point(v[Len(v)], item)[1]]
    ELSE collect_scan(v, item, 1)

\* ------------------------------------------------------- arithmetic -----
\* mutant: the left piece ends at c, not at c - 1
sub_cis_cis_keeps_c(self, rhs) ==
    LET a == self.start
        b == self.end
        c == rhs.start
        d == rhs.end
    IN IF CIS_is_empty(self) \/ CIS_is_empty(rhs)
       THEN OIS_from(<<self>>)
       ELSE into_non_empty_intervals(
                OIS_from(<<ContiguousIntegerSet_new(a, min(b, c)),
                           ContiguousIntegerSet_new(max(d + 1, a), b)>>))

\* mutant: with an empty operand the left operand is returned as it is
sub_cis_cis_raw_left(self, rhs) ==
    LET a == self.start
        b == self.end
        c == rhs.start
        d == rhs.end
    IN IF CIS_is_empty(self) \/ CIS_is_empty(rhs)
       THEN <<self>>
       ELSE into_non_empty_intervals(
                OIS_from(<<ContiguousIntegerSet_new(a, min(b, c - 1)),
                           ContiguousIntegerSet_new(max(d + 1, a), b)>>))

\* mutant: the right piece starts at d, not at d + 1
sub_cis_cis_from_d(self, rhs) ==
    LET a == self.start
        b == self.end
        c == rhs.start
        d == rhs.end
    IN IF CIS_is_empty(self) \/ CIS_is_empty(rhs)
       THEN OIS_from(<<self>>)
       ELSE into_non_empty_intervals(
                OIS_from(<<ContiguousIntegerSet_new(a, min(b, c - 1)),
                           ContiguousIntegerSet_new(max(d, a), b)>>))

\* ContiguousIntegerSet - &ContiguousIntegerSet
sub_cis_cis(self, rhs) ==
    LET a == self.start
        b == self.end
        c == rhs.start
        d == rhs.end
    IN IF CIS_is_empty(self) \/ CIS_is_empty(rhs)
       THEN OIS_from(<<self>>)
       ELSE into_non_empty_intervals(
                OIS_from(<<ContiguousIntegerSet_new(a, min(b, c - 1)),
                           ContiguousIntegerSet_new(max(d + 1, a), b)>>))

\* mutant: only the first interval has rhs taken out of it
FlatMapSub_first_only(v, rhs) ==
    IF v = <<>> THEN <<>>
    ELSE sub_cis_cis(v[1], rhs) \o Tail(v)

\* OrderedIntegerSet - &ContiguousIntegerSet
RECURSIVE FlatMapSub(_, _)
FlatMapSub(v, rhs) ==
    IF v = <<>> THEN <<>>
    ELSE sub_cis_cis(v[1], rhs) \o FlatMapSub(Tail(v), rhs)

sub_ois_cis(self, rhs) == OIS_from(FlatMapSub(self, rhs))

\* mutant: only the first interval of rhs is taken out
FoldSub_first_only(diff, rhs) ==
    IF rhs = <<>> THEN diff
    ELSE sub_ois_cis(diff, rhs[1])

\* ContiguousIntegerSet - &OrderedIntegerSet
RECURSIVE FoldSub(_, _)
FoldSub(diff, rhs) ==
    IF rhs = <<>> THEN diff
    ELSE FoldSub(sub_ois_cis(diff, rhs[1]), Tail(rhs))

sub_cis_ois(self, rhs) == OIS_into_coalesced(FoldSub(OIS_from(<<self>>), rhs))

\* OrderedIntegerSet - &OrderedIntegerSet: rhs_i is the cursor into rhs
\* mutant: the cursor also passes a range that ends at interval.start
RECURSIVE SkipBefore_inclusive(_, _, _)
SkipBefore_inclusive(rhs, rhs_i, interval) ==
    IF rhs_i <= Len(rhs) /\ rhs[rhs_i].end <= interval.start
    THEN SkipBefore_inclusive(rhs, rhs_i + 1, interval)
    ELSE rhs_i

RECURSIVE SkipBefore(_, _, _)
SkipBefore(rhs, rhs_i, interval) ==
    IF rhs_i <= Len(rhs) /\ rhs[rhs_i].end < interval.start
    THEN SkipBefore(rhs, rhs_i + 1, interval)
    ELSE rhs_i

\* mutant: the inner loop runs at most once
SubWithin_once(d, rhs, rhs_i, interval) ==
    IF rhs_i <= Len(rhs) /\ rhs[rhs_i].end <= interval.end
    THEN [d |-> sub_ois_cis(d, rhs[rhs_i]), rhs_i |-> rhs_i + 1]
    ELSE [d |-> d, rhs_i |-> rhs_i]

RECURSIVE SubWithin(_, _, _, _)
SubWithin(d, rhs, rhs_i, interval) ==
    IF rhs_i <= Len(rhs) /\ rhs[rhs_i].end <= interval.end
    THEN SubWithin(sub_ois_cis(d, rhs[rhs_i]), rhs, rhs_i + 1, interval)
    ELSE [d |-> d, rhs_i |-> rhs_i]

RECURSIVE SubSweep(_, _, _, _)
SubSweep(lhs, rhs, rhs_i, diff) ==
    IF lhs = <<>> THEN diff
    ELSE LET interval == lhs[1]
             d0 == from_contiguous_integer_sets(<<interval>>)
             i1 == SkipBefore(rhs, rhs_i, interval)
             w  == SubWithin(d0, rhs, i1, interval)
             d  == IF w.rhs_i <= Len(rhs) /\ rhs[w.rhs_i].start <= interval.end
                   THEN sub_ois_cis(w.d, rhs[w.rhs_i])
                   ELSE w.d
         IN SubSweep(Tail(lhs), rhs, w.rhs_i, diff \o d)

sub_ois_ois(self, rhs) ==
    from_contiguous_integer_sets(SubSweep(self, rhs, 1, <<>>))

\* ---------------------------------------------------------- slicing -----
\* mutant: skip is not reduced by the size of an interval passed over
RECURSIVE SliceWalk_skip_kept(_, _, _, _)
SliceWalk_skip_kept(intervals, skip, remaining, contiguous_sets) ==
    IF intervals = <<>> \/ remaining <= 0 THEN contiguous_sets
    ELSE LET interval == intervals[1]
             size == interval.end - interval.start + 1
         IN IF skip > 0
            THEN IF skip >= size
                 THEN SliceWalk_skip_kept(Tail(intervals), skip, remaining, contiguous_sets)
                 ELSE LET stop == min(skip + remaining, size)
                      IN SliceWalk_skip_kept(Tail(intervals), 0, remaining - (stop - skip),
                                             contiguous_sets \o CIS_slice(skip, stop, interval))
            ELSE LET increase == min(remaining, size)
                 IN SliceWalk_skip_kept(Tail(intervals), 0, remaining - increase,
                                        contiguous_sets \o CIS_slice(0, increase, interval))

\* the body of the loop of Range<usize>::slice on an OrderedIntegerSet
RECURSIVE SliceWalk(_, _, _, _)
SliceWalk(intervals, skip, remaining, contiguous_sets) ==
    IF intervals = <<>> \/ remaining <= 0 THEN contiguous_sets
    ELSE LET interval == intervals[1]
             size == interval.end - interval.start + 1
         IN IF skip > 0
            THEN IF skip >= size
                 THEN SliceWalk(Tail(intervals), skip - size, remaining, contiguous_sets)
                 ELSE LET stop == min(skip + remaining, size)
                      IN SliceWalk(Tail(intervals), 0, remaining - (stop - skip),
                                   contiguous_sets \o CIS_slice(skip, stop, interval))
            ELSE LET increase == min(remaining, size)
                 IN SliceWalk(Tail(intervals), 0, remaining - increase,
                              contiguous_sets \o CIS_slice(0, increase, interval))

OIS_slice(lo, hi, input) ==
    IF lo >= hi THEN OrderedIntegerSet_new
    ELSE from_contiguous_integer_sets(SliceWalk(input, lo, hi - lo, <<>>))

\* ------------------------------------------- bounded element type -----
\* The element type E as a primitive integer of Width bits, signed or
\* unsigned.  cfg.signed names the type, cfg.overflow_checks the build: with
\* overflow checks an operation whose result is not in E panics, without
\* them it wraps modulo 2^Width.  An outcome is a panic or a value.
Panic == [panic |-> TRUE]
Ok(v) == [panic |-> FALSE, value |-> v]

RECURSIVE TwoPow(_)
TwoPow(n) == IF n = 0 THEN 1 ELSE 2 * TwoPow(n - 1)

E_min(signed) == IF signed THEN 0 - TwoPow(Width - 1) ELSE 0
E_max(signed) == E_min(signed) + TwoPow(Width) - 1
E_vals(signed) == E_min(signed)..E_max(signed)
E_ranges(signed) == [start : E_vals(signed), end : E_vals(signed)]
Cfgs == [signed : BOOLEAN, overflow_checks : BOOLEAN]

E_wrap(signed, x) == ((x - E_min(signed)) % TwoPow(Width)) + E_min(signed)

\* the result x of an addition or subtraction in E
E_result(cfg, x) ==
    IF x \in E_vals(cfg.signed) THEN Ok(x)
    ELSE IF cfg.overflow_checks THEN Panic
    ELSE Ok(E_wrap(cfg.signed, x))

E_add(cfg, x, y) == E_result(cfg, x + y)
E_sub(cfg, x, y) == E_result(cfg, x - y)

\* E::from_usize(n).unwrap()
E_from_usize(cfg, n) == IF n <= E_max(cfg.signed) THEN Ok(n) ELSE Panic

\* x.to_usize().unwrap(): usize is wider than E
E_to_usize(x) == IF x >= 0 THEN Ok(x) ELSE Panic

\* (end - start + E::one()).to_usize().unwrap()
E_span(cfg, r) ==
    LET d == E_sub(cfg, r.end, r.start)
    IN IF d.panic THEN Panic
       ELSE LET s == E_add(cfg, d.value, 1)
            IN IF s.panic THEN Panic ELSE E_to_usize(s.value)

\* Finite::size for ContiguousIntegerSet
CIS_size_E(cfg, r) == IF CIS_is_empty(r) THEN Ok(0) ELSE E_span(cfg, r)

\* Finite::size for OrderedIntegerSet: the sum is taken in usize
RECURSIVE OIS_size_E(_, _)
OIS_size_E(cfg, v) ==
    IF v = <<>> THEN Ok(0)
    ELSE LET h == CIS_size_E(cfg, v[1])
             t == OIS_size_E(cfg, Tail(v))
         IN IF h.panic \/ t.panic THEN Panic ELSE Ok(h.value + t.value)

\* Coalesce<Self>: other.end + 1 is computed first, self.end + 1 only when
\* the first test is false
CIS_coalesce_with_E(cfg, r, other) ==
    IF CIS_is_empty(r) /\ CIS_is_empty(other) THEN Ok(None)
    ELSE IF CIS_is_empty(r) THEN Ok(Some(other))
    ELSE IF CIS_is_empty(other) THEN Ok(Some(r))
    ELSE LET oe == E_add(cfg, other.end, 1)
         IN IF oe.panic THEN Panic
            ELSE IF r.start > oe.value THEN Ok(None)
            ELSE LET re == E_add(cfg, r.end, 1)
                 IN IF re.panic THEN Panic
                    ELSE IF re.value < other.start THEN Ok(None)
                    ELSE Ok(Some(ContiguousIntegerSet_new(min(r.start, other.start),
                                                          max(r.end, other.end))))

\* merge each range into the last range kept while coalesce_with succeeds
RECURSIVE MergeNeighbors_E(_, _, _)
MergeNeighbors_E(cfg, acc, rest) ==
    IF rest = <<>> THEN Ok(acc)
    ELSE IF acc = <<>> THEN MergeNeighbors_E(cfg, <<rest[1]>>, Tail(rest))
    ELSE LET m == CIS_coalesce_with_E(cfg, acc[Len(acc)], rest[1])
         IN IF m.panic THEN Panic
            ELSE IF m.value = None
            THEN MergeNeighbors_E(cfg, Append(acc, rest[1]), Tail(rest))
            ELSE MergeNeighbors_E(cfg, [acc EXCEPT ![Len(acc)] = m.value[1]], Tail(rest))

\* CoalesceIntervals::into_coalesced on a Vec
Vec_into_coalesced_E(cfg, v) == MergeNeighbors_E(cfg, <<>>, SortByStart(v))

\* From<Vec<ContiguousIntegerSet>> for OrderedIntegerSet
OIS_from_E(cfg, v) == Vec_into_coalesced_E(cfg, remove_empty_intervals(v))

\* Range<usize>::slice on a ContiguousIntegerSet
CIS_slice_E(cfg, lo, hi, input) ==
    IF lo >= hi THEN Ok(None)
    ELSE LET size == CIS_size_E(cfg, input)
         IN IF size.panic THEN Panic
            ELSE IF lo >= size.value THEN Ok(None)
            ELSE LET l == E_from_usize(cfg, lo)
                     h == E_from_usize(cfg, hi)
                     s == IF l.panic THEN Panic ELSE E_add(cfg, input.start, l.value)
                     e0 == IF h.panic THEN Panic ELSE E_add(cfg, input.start, h.value)
                     e == IF e0.panic THEN Panic ELSE E_sub(cfg, e0.value, 1)
                 IN IF s.panic \/ e.panic THEN Panic
                    ELSE Ok(Some(ContiguousIntegerSet_new(s.value, e.value)))

\* the body of the loop of Range<usize>::slice on an OrderedIntegerSet
RECURSIVE SliceWalk_E(_, _, _, _, _)
SliceWalk_E(cfg, intervals, skip, remaining, contiguous_sets) ==
    IF intervals = <<>> \/ remaining <= 0 THEN Ok(contiguous_sets)
    ELSE LET interval == intervals[1]
             size == E_span(cfg, interval)
         IN IF size.panic THEN Panic
            ELSE IF skip > 0
            THEN IF skip >= size.value
                 THEN SliceWalk_E(cfg, Tail(intervals), skip - size.value, remaining,
                                  contiguous_sets)
                 ELSE LET stop == min(skip + remaining, size.value)
                          piece == CIS_slice_E(cfg, skip, stop, interval)
                      IN IF piece.panic THEN Panic
                         ELSE SliceWalk_E(cfg, Tail(intervals), 0, remaining - (stop - skip),
                                          contiguous_sets \o piece.value)
            ELSE LET increase == min(remaining, size.value)
                     piece == CIS_slice_E(cfg, 0, increase, interval)
                 IN IF piece.panic THEN Panic
                    ELSE SliceWalk_E(cfg, Tail(intervals), 0, remaining - increase,
                                     contiguous_sets \o piece.value)

OIS_slice_E(cfg, lo, hi, input) ==
    IF lo >= hi THEN Ok(OrderedIntegerSet_new)
    ELSE LET w == SliceWalk_E(cfg, input, lo, hi - lo, <<>>)
         IN IF w.panic THEN Panic ELSE Vec_into_coalesced_E(cfg, w.value)

\* ContiguousIntegerSet - &ContiguousIntegerSet
sub_cis_cis_E(cfg, self, rhs) ==
    LET a == self.start
        b == self.end
        c == rhs.start
        d == rhs.end
    IN IF CIS_is_empty(self) \/ CIS_is_empty(rhs)
       THEN OIS_from_E(cfg, <<self>>)
       ELSE LET c1 == E_sub(cfg, c, 1)
                d1 == E_add(cfg, d, 1)
            IN IF c1.panic \/ d1.panic THEN Panic
               ELSE LET set0 == OIS_from_E(cfg,
                                   <<ContiguousIntegerSet_new(a, min(b, c1.value)),
                                     ContiguousIntegerSet_new(max(d1.value, a), b)>>)
                    IN IF set0.panic THEN Panic
                       ELSE Ok(into_non_empty_intervals(set0.value))

\* -------------------------------------------------------- iterators -----
\* ContiguousIntegerSetIter::from
ContiguousIntegerSetIter_from(r) == [contiguous_integer_set |-> r, current |-> 0]

\* ContiguousIntegerSetIter::next: the iterator after the call and the item
ContiguousIntegerSetIter_next(it) ==
    IF it.current > it.contiguous_integer_set.end
    THEN [iter |-> it, item |-> None]
    ELSE [iter |-> [it EXCEPT !.current = it.current + 1], item |-> Some(it.current)]

\* IntegerSetIter::from
IntegerSetIter_from(v) ==
    [ordered_integer_set |-> v, current_interval_index |-> 0, current_element_index |-> 0]

\* IntegerSetIter::next (indices are 0-based as in the source)
RECURSIVE IntegerSetIter_next(_)
IntegerSetIter_next(it) ==
    IF it.current_interval_index >= Len(it.ordered_integer_set)
    THEN [iter |-> it, item |-> None]
    ELSE LET interval == it.ordered_integer_set[it.current_interval_index + 1]
         IN IF it.current_element_index >= CIS_size(interval)
            THEN IntegerSetIter_next([it EXCEPT !.current_interval_index = @ + 1,
                                               !.current_element_index = 0])
            ELSE [iter |-> [it EXCEPT !.current_element_index = @ + 1],
                  item |-> Some(interval.start + it.current_element_index)]


\* ------------------------------------------- what a set denotes ---------
IntsOfRange(r) == r.start..r.end

IntsOf(v) == UNION {IntsOfRange(v[k]) : k \in 1..Len(v)}

RECURSIVE Ascending(_)
Ascending(S) ==
    IF S = {} THEN <<>>
    ELSE LET m == CHOOSE x \in S : \A y \in S : x <= y
         IN <<m>> \o Ascending(S \ {m})

\* sorted ascending by start, no empty interval, end_i + 1 < start_{i+1}
IsCanonical(v) ==
    /\ \A k \in 1..Len(v) : ~CIS_is_empty(v[k])
    /\ \A k \in 1..(Len(v) - 1) : /\ v[k].start <= v[k + 1].start
                                  /\ v[k].end + 1 < v[k + 1].start

\* the items a fresh IntegerSetIter yields until it returns None
RECURSIVE Drain(_)
Drain(it) ==
    LET r == IntegerSetIter_next(it)
    IN IF r.item = None THEN <<>> ELSE r.item \o Drain(r.iter)

IterateAll(v) == Drain(IntegerSetIter_from(v))

\* ------------------------------------------------------- the inputs -----
SingletonPairs(S) == [k \in 1..Cardinality(S) |-> <<Ascending(S)[k], Ascending(S)[k]>>]

\* the sets from_slice builds from the points of each subset of Vals:
\* every canonical set over Vals, OrderedIntegerSet::new() included
InputSets == {from_slice(SingletonPairs(S)) : S \in SUBSET Vals}

ValPairs == {<<s, e>> : s \in 0..MaxPairVal, e \in 0..MaxPairVal}

PairLists == UNION {[1..n -> ValPairs] : n \in 0..MaxPairs}

\* ------------------------------------------------------------ state -----
VARIABLES
    op,        \* the operation that produced the current state
    pairs,     \* the argument of from_slice
    set,       \* the OrderedIntegerSet operated on (self)
    item,      \* the argument of the last collect
    elems,     \* ghost: the integers of the initial set and those collected
    other,     \* the OrderedIntegerSet argument (rhs)
    ra,        \* the ContiguousIntegerSet operated on (self)
    rb,        \* the ContiguousIntegerSet argument (rhs)
    lo,        \* Range<usize>.start of a slice
    hi,        \* Range<usize>.end of a slice
    out,       \* the OrderedIntegerSet an operation returned
    opt,       \* the Option<ContiguousIntegerSet> an operation returned
    opt2,      \* the Option<ContiguousIntegerSet> of the call with self and other exchanged
    iter,      \* the IntegerSetIter
    istate,    \* "none", "active", or "done" once next() returned None
    yielded,   \* the items iter has returned
    citer,     \* the ContiguousIntegerSetIter
    cstate,    \* "none", "active", or "done" once next() returned None
    cyielded,  \* the items citer has returned
    cfg,       \* the element type (signed or not) and the build (overflow checks or not)
    panicked,  \* whether the last operation in E panicked
    count      \* the usize the last operation in E returned

vars == <<op, pairs, set, item, elems, other, ra, rb, lo, hi, out, opt, opt2,
          iter, istate, yielded, citer, cstate, cyielded, cfg, panicked, count>>

setVars == <<set, item, elems>>
argVars == <<pairs, other, ra, rb, lo, hi>>
resVars == <<out, opt, opt2>>
iterVars == <<iter, istate, yielded>>
citerVars == <<citer, cstate, cyielded>>
numVars == <<cfg, panicked, count>>

NoRange == ContiguousIntegerSet_new(0, 0)

\* everything but the named inputs
InitRest ==
    /\ op = "init"
    /\ pairs = <<>>
    /\ item = 0
    /\ other = OrderedIntegerSet_new
    /\ ra = NoRange
    /\ rb = NoRange
    /\ lo = 0
    /\ hi = 0
    /\ out = OrderedIntegerSet_new
    /\ opt = None
    /\ opt2 = None
    /\ iter = IntegerSetIter_from(OrderedIntegerSet_new)
    /\ istate = "none"
    /\ yielded = <<>>
    /\ citer = ContiguousIntegerSetIter_from(NoRange)
    /\ cstate = "none"
    /\ cyielded = <<>>
    /\ cfg = [signed |-> TRUE, overflow_checks |-> TRUE]
    /\ panicked = FALSE
    /\ count = 0

\* ---------------------------------------------------- collect machine ---
\* a set built by OrderedIntegerSet::new() or from_slice
Init ==
    /\ set \in InputSets
    /\ elems = IntsOf(set)
    /\ InitRest

Collect(x) ==
    /\ set' = collect(set, x)
    /\ item' = x
    /\ elems' = elems \cup {x}
    /\ op' = "collect"
    /\ UNCHANGED <<argVars, resVars, iterVars, citerVars, numVars>>

Next == \E x \in Vals : Collect(x)

Spec == Init /\ [][Next]_vars

\* the collect machine started from OrderedIntegerSet::new()
InitFromEmpty ==
    /\ set = OrderedIntegerSet_new
    /\ elems = {}
    /\ InitRest

SpecFromEmpty == InitFromEmpty /\ [][Next]_vars

\* --------------------------------------------------- set iteration ------
\* to_iter clones the set, so the iterator walks the set as it was then;
\* collects happen while no iterator has been taken
CollectBeforeIter(x) ==
    /\ istate = "none"
    /\ Collect(x)

ToIter ==
    /\ iter' = IntegerSetIter_from(set)
    /\ istate' = "active"
    /\ yielded' = <<>>
    /\ op' = "to_iter"
    /\ UNCHANGED <<setVars, argVars, resVars, citerVars, numVars>>

IterNext ==
    /\ istate \in {"active", "done"}
    /\ LET r == IntegerSetIter_next(iter)
       IN /\ iter' = r.iter
          /\ yielded' = yielded \o r.item
          /\ istate' = IF r.item = None THEN "done" ELSE "active"
    /\ op' = "next"
    /\ UNCHANGED <<setVars, argVars, resVars, citerVars, numVars>>

NextIter ==
    \/ \E x \in Vals : CollectBeforeIter(x)
    \/ ToIter
    \/ IterNext

SpecIter == Init /\ [][NextIter]_vars

\* -------------------------------------------------- range iteration -----
InitCIter ==
    /\ ra \in Ranges
    /\ op = "init"
    /\ pairs = <<>>
    /\ set = OrderedIntegerSet_new
    /\ elems = {}
    /\ item = 0
    /\ other = OrderedIntegerSet_new
    /\ rb = NoRange
    /\ lo = 0
    /\ hi = 0
    /\ out = OrderedIntegerSet_new
    /\ opt = None
    /\ opt2 = None
    /\ iter = IntegerSetIter_from(OrderedIntegerSet_new)
    /\ istate = "none"
    /\ yielded = <<>>
    /\ citer = ContiguousIntegerSetIter_from(NoRange)
    /\ cstate = "none"
    /\ cyielded = <<>>
    /\ cfg = [signed |-> TRUE, overflow_checks |-> TRUE]
    /\ panicked = FALSE
    /\ count = 0

CToIter ==
    /\ citer' = ContiguousIntegerSetIter_from(ra)
    /\ cstate' = "active"
    /\ cyielded' = <<>>
    /\ op' = "to_iter"
    /\ UNCHANGED <<setVars, argVars, resVars, iterVars, numVars>>

CIterNext ==
    /\ cstate \in {"active", "done"}
    /\ LET r == ContiguousIntegerSetIter_next(citer)
       IN /\ citer' = r.iter
          /\ cyielded' = cyielded \o r.item
          /\ cstate' = IF r.item = None THEN "done" ELSE "active"
    /\ op' = "next"
    /\ UNCHANGED <<setVars, argVars, resVars, iterVars, numVars>>

NextCIter ==
    \/ CToIter
    \/ CIterNext

SpecCIter == InitCIter /\ [][NextCIter]_vars


\* ------------------------------------------------- range arithmetic -----
InitRange ==
    /\ ra \in Ranges
    /\ rb \in Ranges
    /\ op = "init"
    /\ pairs = <<>>
    /\ set = OrderedIntegerSet_new
    /\ elems = {}
    /\ item = 0
    /\ other = OrderedIntegerSet_new
    /\ lo = 0
    /\ hi = 0
    /\ out = OrderedIntegerSet_new
    /\ opt = None
    /\ opt2 = None
    /\ iter = IntegerSetIter_from(OrderedIntegerSet_new)
    /\ istate = "none"
    /\ yielded = <<>>
    /\ citer = ContiguousIntegerSetIter_from(NoRange)
    /\ cstate = "none"
    /\ cyielded = <<>>
    /\ cfg = [signed |-> TRUE, overflow_checks |-> TRUE]
    /\ panicked = FALSE
    /\ count = 0

\* ra - &rb
SubRange ==
    /\ op \in {"init", "intersect"}
    /\ out' = sub_cis_cis(ra, rb)
    /\ op' = IF op = "init" THEN "sub" ELSE "sub_intersect"
    /\ UNCHANGED <<setVars, argVars, opt, opt2, iterVars, citerVars, numVars>>

\* ra.intersect(&rb)
IntersectRange ==
    /\ op \in {"init", "sub"}
    /\ opt' = CIS_intersect(ra, rb)
    /\ op' = IF op = "init" THEN "intersect" ELSE "sub_intersect"
    /\ UNCHANGED <<setVars, argVars, out, opt2, iterVars, citerVars, numVars>>

NextRange ==
    \/ SubRange
    \/ IntersectRange

SpecRange == InitRange /\ [][NextRange]_vars

\* ------------------------------------------------- range coalescing -----
\* ra.coalesce_with(&rb)
CoalesceRange ==
    /\ op \in {"init", "coalesce_exchanged"}
    /\ opt' = CIS_coalesce_with(ra, rb)
    /\ op' = IF op = "init" THEN "coalesce" ELSE "coalesce_both"
    /\ UNCHANGED <<setVars, argVars, out, opt2, iterVars, citerVars, numVars>>

\* rb.coalesce_with(&ra)
CoalesceRangeExchanged ==
    /\ op \in {"init", "coalesce"}
    /\ opt2' = CIS_coalesce_with(rb, ra)
    /\ op' = IF op = "init" THEN "coalesce_exchanged" ELSE "coalesce_both"
    /\ UNCHANGED <<setVars, argVars, out, opt, iterVars, citerVars, numVars>>

NextCoalesce ==
    \/ CoalesceRange
    \/ CoalesceRangeExchanged

SpecCoalesce == InitRange /\ [][NextCoalesce]_vars

\* ------------------------------------------------------ from_slice ------
InitFromSlice ==
    /\ pairs \in PairLists
    /\ op = "init"
    /\ set = OrderedIntegerSet_new
    /\ elems = {}
    /\ item = 0
    /\ other = OrderedIntegerSet_new
    /\ ra = NoRange
    /\ rb = NoRange
    /\ lo = 0
    /\ hi = 0
    /\ out = OrderedIntegerSet_new
    /\ opt = None
    /\ opt2 = None
    /\ iter = IntegerSetIter_from(OrderedIntegerSet_new)
    /\ istate = "none"
    /\ yielded = <<>>
    /\ citer = ContiguousIntegerSetIter_from(NoRange)
    /\ cstate = "none"
    /\ cyielded = <<>>
    /\ cfg = [signed |-> TRUE, overflow_checks |-> TRUE]
    /\ panicked = FALSE
    /\ count = 0

FromSlice ==
    /\ op = "init"
    /\ set' = from_slice(pairs)
    /\ elems' = IntsOf(set')
    /\ op' = "from_slice"
    /\ UNCHANGED <<pairs, item, other, ra, rb, lo, hi, resVars, iterVars, citerVars, numVars>>

NextFromSlice == FromSlice

SpecFromSlice == InitFromSlice /\ [][NextFromSlice]_vars

\* --------------------------------------------------- set coalescing -----
\* any vector of ranges, canonical or not, taken as it is
InitCoalesceSet ==
    /\ pairs \in PairLists
    /\ set = from_ordered_coalesced_contiguous_integer_sets(
                 [k \in 1..Len(pairs) |-> ContiguousIntegerSet_new(pairs[k][1], pairs[k][2])])
    /\ elems = IntsOf(set)
    /\ op = "init"
    /\ item = 0
    /\ other = OrderedIntegerSet_new
    /\ ra = NoRange
    /\ rb = NoRange
    /\ lo = 0
    /\ hi = 0
    /\ out = OrderedIntegerSet_new
    /\ opt = None
    /\ opt2 = None
    /\ iter = IntegerSetIter_from(OrderedIntegerSet_new)
    /\ istate = "none"
    /\ yielded = <<>>
    /\ citer = ContiguousIntegerSetIter_from(NoRange)
    /\ cstate = "none"
    /\ cyielded = <<>>
    /\ cfg = [signed |-> TRUE, overflow_checks |-> TRUE]
    /\ panicked = FALSE
    /\ count = 0

\* set.coalesce_intervals_inplace()
CoalesceInplace ==
    /\ set' = OIS_coalesce_intervals_inplace(set)
    /\ op' = IF op = "init" THEN "coalesce" ELSE "coalesce_again"
    /\ UNCHANGED <<item, elems, argVars, resVars, iterVars, citerVars, numVars>>

NextCoalesceSet == CoalesceInplace

SpecCoalesceSet == InitCoalesceSet /\ [][NextCoalesceSet]_vars

\* ------------------------------------ operations on a canonical set -----
\* set - &r
SubSetRange(r) ==
    /\ op = "init"
    /\ rb' = r
    /\ out' = sub_ois_cis(set, r)
    /\ op' = "sub_ois_cis"
    /\ UNCHANGED <<setVars, pairs, other, ra, lo, hi, opt, opt2, iterVars, citerVars, numVars>>

\* r - &set
SubRangeSet(r) ==
    /\ op = "init"
    /\ ra' = r
    /\ out' = sub_cis_ois(r, set)
    /\ op' = "sub_cis_ois"
    /\ UNCHANGED <<setVars, pairs, other, rb, lo, hi, opt, opt2, iterVars, citerVars, numVars>>

\* set - &rhs
SubSets(rhs) ==
    /\ op = "init"
    /\ other' = rhs
    /\ out' = sub_ois_ois(set, rhs)
    /\ op' = "sub_ois_ois"
    /\ UNCHANGED <<setVars, pairs, ra, rb, lo, hi, opt, opt2, iterVars, citerVars, numVars>>

\* set.intersect(&rhs)
IntersectSets(rhs) ==
    /\ op = "init"
    /\ other' = rhs
    /\ out' = OIS_intersect(set, rhs)
    /\ op' = "intersect"
    /\ UNCHANGED <<setVars, pairs, ra, rb, lo, hi, opt, opt2, iterVars, citerVars, numVars>>

\* set.slice(l..h)
SliceSet(l, h) ==
    /\ op = "init"
    /\ lo' = l
    /\ hi' = h
    /\ out' = OIS_slice(l, h, set)
    /\ op' = "slice"
    /\ UNCHANGED <<setVars, pairs, other, ra, rb, opt, opt2, iterVars, citerVars, numVars>>

NextOps ==
    \/ \E r \in Ranges : SubSetRange(r)
    \/ \E r \in Ranges : SubRangeSet(r)
    \/ \E rhs \in InputSets : SubSets(rhs)
    \/ \E rhs \in InputSets : IntersectSets(rhs)
    \/ \E l \in Ranks, h \in Ranks : SliceSet(l, h)

SpecOps == Init /\ [][NextOps]_vars


\* ---------------------------------------------------------- slicing -----
\* a canonical set to slice, or a range to slice
InitSlice ==
    /\ \/ (set \in InputSets /\ ra = NoRange)
       \/ (set = OrderedIntegerSet_new /\ ra \in Ranges)
    /\ elems = IntsOf(set)
    /\ op = "init"
    /\ pairs = <<>>
    /\ item = 0
    /\ other = OrderedIntegerSet_new
    /\ rb = NoRange
    /\ lo = 0
    /\ hi = 0
    /\ out = OrderedIntegerSet_new
    /\ opt = None
    /\ opt2 = None
    /\ iter = IntegerSetIter_from(OrderedIntegerSet_new)
    /\ istate = "none"
    /\ yielded = <<>>
    /\ citer = ContiguousIntegerSetIter_from(NoRange)
    /\ cstate = "none"
    /\ cyielded = <<>>
    /\ cfg = [signed |-> TRUE, overflow_checks |-> TRUE]
    /\ panicked = FALSE
    /\ count = 0

\* ra.slice(l..h)
SliceRange(l, h) ==
    /\ op = "init"
    /\ lo' = l
    /\ hi' = h
    /\ opt' = CIS_slice(l, h, ra)
    /\ op' = "slice_cis"
    /\ UNCHANGED <<setVars, pairs, other, ra, rb, out, opt2, iterVars, citerVars, numVars>>

NextSlice ==
    \/ \E l \in Ranks, h \in Ranks : SliceSet(l, h)
    \/ \E l \in Ranks, h \in Ranks : SliceRange(l, h)

SpecSlice == InitSlice /\ [][NextSlice]_vars

\* ------------------------------------ operations in a bounded type ------
\* an element type, a build, and a range of that type; the set holds the
\* range when it is not empty
InitWidth ==
    /\ cfg \in Cfgs
    /\ ra \in E_ranges(cfg.signed)
    /\ set = IF CIS_is_empty(ra) THEN OrderedIntegerSet_new
             ELSE from_ordered_coalesced_contiguous_integer_sets(<<ra>>)
    /\ elems = IntsOf(set)
    /\ op = "init"
    /\ pairs = <<>>
    /\ item = 0
    /\ other = OrderedIntegerSet_new
    /\ rb = NoRange
    /\ lo = 0
    /\ hi = 0
    /\ out = OrderedIntegerSet_new
    /\ opt = None
    /\ opt2 = None
    /\ iter = IntegerSetIter_from(OrderedIntegerSet_new)
    /\ istate = "none"
    /\ yielded = <<>>
    /\ citer = ContiguousIntegerSetIter_from(NoRange)
    /\ cstate = "none"
    /\ panicked = FALSE
    /\ count = 0
    /\ cyielded = <<>>

\* ra.size()
SizeRange ==
    /\ op = "init"
    /\ LET r == CIS_size_E(cfg, ra)
       IN /\ panicked' = r.panic
          /\ count' = IF r.panic THEN 0 ELSE r.value
    /\ op' = "size_cis"
    /\ UNCHANGED <<setVars, argVars, resVars, iterVars, citerVars, cfg>>

\* set.size()
SizeSet ==
    /\ op = "init"
    /\ LET r == OIS_size_E(cfg, set)
       IN /\ panicked' = r.panic
          /\ count' = IF r.panic THEN 0 ELSE r.value
    /\ op' = "size_ois"
    /\ UNCHANGED <<setVars, argVars, resVars, iterVars, citerVars, cfg>>

\* set.slice(l..h)
SliceSetE(l, h) ==
    /\ op = "init"
    /\ lo' = l
    /\ hi' = h
    /\ LET r == OIS_slice_E(cfg, l, h, set)
       IN /\ panicked' = r.panic
          /\ out' = IF r.panic THEN OrderedIntegerSet_new ELSE r.value
    /\ op' = "slice_E"
    /\ UNCHANGED <<setVars, pairs, other, ra, rb, opt, opt2, iterVars, citerVars, cfg, count>>

\* ra - &r
SubRangeE(r) ==
    /\ op = "init"
    /\ r \in E_ranges(cfg.signed)
    /\ rb' = r
    /\ LET d == sub_cis_cis_E(cfg, ra, r)
       IN /\ panicked' = d.panic
          /\ out' = IF d.panic THEN OrderedIntegerSet_new ELSE d.value
    /\ op' = "sub_E"
    /\ UNCHANGED <<setVars, pairs, other, ra, lo, hi, opt, opt2, iterVars, citerVars, cfg, count>>

NextWidth ==
    \/ SizeRange
    \/ SizeSet
    \/ \E l \in Ranks, h \in Ranks : SliceSetE(l, h)
    \/ \E r \in E_ranges(TRUE) \cup E_ranges(FALSE) : SubRangeE(r)

SpecWidth == InitWidth /\ [][NextWidth]_vars

\* =============================================================== claims ==

\* C1: starting from new() or from_slice, after any sequence of collect
\* calls the interval sequence is canonical: sorted ascending by start, no
\* empty interval, and end_i + 1 < start_{i+1} for consecutive intervals.
C1_CollectKeepsCanonical == IsCanonical(set)

\* C11: the special case of collect on the last interval changes nothing
\* observable: for every canonical set and every point, collect produces
\* the interval sequence that the scan alone (insert before / merge into i,
\* then with i+1 / append) produces.
C11_FastPathEqualsScan ==
    [][(op' = "collect" /\ IsCanonical(set)) => set' = collect_scan(set, item', 1)]_vars

\* C12: coalescing symmetry: for all ranges a and b, empty ones included,
\* a.coalesce_with(b) = b.coalesce_with(a).
C12_CoalesceSymmetric ==
    op = "coalesce_both" => opt = opt2

\* both calls made on two adjacent non-empty ranges, b before a
C12_Witness ==
    /\ op = "coalesce_both"
    /\ ~CIS_is_empty(ra)
    /\ ~CIS_is_empty(rb)
    /\ rb.end + 1 = ra.start
    /\ opt = Some(ContiguousIntegerSet_new(rb.start, ra.end))

\* C13: for non-empty a and b, a.coalesce_with(b) is Some exactly when they
\* overlap or are adjacent (a.end + 1 >= b.start and b.end + 1 >= a.start),
\* the result is then [min(a.start, b.start), max(a.end, b.end)] and denotes
\* the union of a and b; it is None exactly when an integer lies strictly
\* between them.
C13_CoalesceIffTouching ==
    (op \in {"coalesce", "coalesce_both"} /\ ~CIS_is_empty(ra) /\ ~CIS_is_empty(rb)) =>
        LET touching == ra.end + 1 >= rb.start /\ rb.end + 1 >= ra.start
            between == {x \in ((0 - MaxNeg) - 1)..(MaxVal + 1) :
                           \/ (ra.end < x /\ x < rb.start)
                           \/ (rb.end < x /\ x < ra.start)}
        IN /\ (opt # None) <=> touching
           /\ (opt = None) <=> (between # {})
           /\ opt # None =>
                 /\ opt = Some(ContiguousIntegerSet_new(min(ra.start, rb.start),
                                                        max(ra.end, rb.end)))
                 /\ IntsOf(opt) = IntsOfRange(ra) \cup IntsOfRange(rb)

\* two adjacent non-empty ranges have been merged
C13_Witness ==
    /\ op = "coalesce"
    /\ ~CIS_is_empty(ra)
    /\ ~CIS_is_empty(rb)
    /\ ra.end + 1 = rb.start
    /\ opt = Some(ContiguousIntegerSet_new(ra.start, rb.end))

\* C14 (as claimed): an empty range coalesces with anything: for every range
\* b, empty or not, if a is empty then a.coalesce_with(b) returns Some(b).
C14_EmptyCoalescesWithAnything ==
    (op \in {"coalesce", "coalesce_both"} /\ CIS_is_empty(ra)) => opt = Some(rb)

\* C14 (amended): if a is empty, a.coalesce_with(b) returns Some(b) for every
\* non-empty b, and None when b is empty too.
C14_EmptyCoalescesWithNonEmpty ==
    (op \in {"coalesce", "coalesce_both"} /\ CIS_is_empty(ra)) =>
        opt = IF CIS_is_empty(rb) THEN None ELSE Some(rb)

\* an empty range has been coalesced with a non-empty one
C14_Witness ==
    /\ op = "coalesce"
    /\ CIS_is_empty(ra)
    /\ ~CIS_is_empty(rb)
    /\ opt = Some(rb)

\* C15: coalescing is idempotent: for every OrderedIntegerSet, canonical or
\* not, coalescing the coalesced form returns it unchanged, and coalescing
\* an already canonical set leaves its interval sequence unchanged.
C15_CoalesceIdempotent ==
    [][(op # "init" \/ IsCanonical(set)) => set' = set]_vars

\* a second coalescing of a set whose first coalescing merged unsorted,
\* overlapping input
C15_Witness ==
    /\ op = "coalesce_again"
    /\ Len(pairs) = 3
    /\ pairs[1][1] <= pairs[1][2]
    /\ pairs[1][1] > pairs[2][1]
    /\ pairs[2][1] <= pairs[2][2]
    /\ pairs[2][2] >= pairs[3][1]
    /\ pairs[3][1] <= pairs[3][2]
    /\ Len(set) < 3
    /\ IsCanonical(set)

\* C16: slicing with an invalid rank range never fails and returns nothing:
\* OrderedIntegerSet::slice(lo..hi) returns the empty set whenever lo >= hi
\* or lo >= S.size(), and ContiguousIntegerSet::slice(lo..hi) returns None
\* in the same cases (e.g. [1,12].slice(0..0)).
C16_InvalidRanksGiveNothing ==
    /\ (op = "slice" /\ (lo >= hi \/ lo >= OIS_size(set))) => out = OrderedIntegerSet_new
    /\ (op = "slice_cis" /\ (lo >= hi \/ lo >= CIS_size(ra))) => opt = None
    /\ CIS_slice(0, 0, ContiguousIntegerSet_new(1, 12)) = None

\* a non-empty range sliced from a rank past its last element
C16_Witness ==
    /\ op = "slice_cis"
    /\ ~CIS_is_empty(ra)
    /\ lo < hi
    /\ lo >= CIS_size(ra)
    /\ opt = None

\* C17: ContiguousIntegerSet::slice(lo..hi) on a range R with lo < hi and
\* lo < R.size() returns [start+lo, start+hi-1], and that range lies within
\* R, for every hi, hi > R.size() included.
C17_RangeSliceWithinRange ==
    (op = "slice_cis" /\ lo < hi /\ lo < CIS_size(ra)) =>
        /\ opt = Some(ContiguousIntegerSet_new(ra.start + lo, ra.start + hi - 1))
        /\ IntsOf(opt) \subseteq IntsOfRange(ra)

\* C18 (as stated): range minus range with an empty operand: if either ra
\* or rb is empty, ra - rb is the set {ra}, the left operand unchanged.
C18_EmptyOperandKeepsLeft ==
    (op \in {"sub", "sub_intersect"} /\ (CIS_is_empty(ra) \/ CIS_is_empty(rb))) =>
        out = <<ra>>

\* C18 (amended): if rb is empty and ra is not, ra - rb is the set {ra};
\* if ra is empty, ra - rb is the set of no ranges, whatever rb is.
C18_EmptyOperand ==
    op \in {"sub", "sub_intersect"} =>
        /\ CIS_is_empty(ra) => out = OrderedIntegerSet_new
        /\ (~CIS_is_empty(ra) /\ CIS_is_empty(rb)) => out = <<ra>>

\* an empty range minus a non-empty one
C18_Witness ==
    /\ op = "sub"
    /\ CIS_is_empty(ra)
    /\ ~CIS_is_empty(rb)
    /\ out = OrderedIntegerSet_new

\* C19: shape of range minus range: for non-empty ra = [a,b] and
\* rb = [c,d] the result consists of the non-empty ones among
\* [a, min(b, c-1)] and [max(d+1, a), b], in ascending order: no range when
\* rb covers ra, two when rb lies strictly inside ra, one otherwise;
\* [2,10] - [4,9] = {[2,3],[10,10]}.
C19_SubtractionShape ==
    /\ (op \in {"sub", "sub_intersect"} /\ ~CIS_is_empty(ra) /\ ~CIS_is_empty(rb)) =>
          LET a == ra.start
              b == ra.end
              c == rb.start
              d == rb.end
              pieces == <<ContiguousIntegerSet_new(a, min(b, c - 1)),
                          ContiguousIntegerSet_new(max(d + 1, a), b)>>
              NonEmpty(r) == ~CIS_is_empty(r)
              covers == c <= a /\ b <= d
              inside == a < c /\ d < b
          IN /\ out = SelectSeq(pieces, NonEmpty)
             /\ \A i \in 1..(Len(out) - 1) : out[i].end < out[i + 1].start
             /\ covers => Len(out) = 0
             /\ inside => Len(out) = 2
             /\ (~covers /\ ~inside) => Len(out) = 1
    /\ sub_cis_cis(ContiguousIntegerSet_new(2, 10), ContiguousIntegerSet_new(4, 9))
           = <<ContiguousIntegerSet_new(2, 3), ContiguousIntegerSet_new(10, 10)>>

\* rb overlaps the lower edge of ra: one piece remains, above rb
C19_Witness ==
    /\ op = "sub"
    /\ rb.start <= ra.start
    /\ ra.start <= rb.end
    /\ rb.end < ra.end
    /\ out = <<ContiguousIntegerSet_new(rb.end + 1, ra.end)>>

\* C20: set minus range: for every set built by from_slice and every range
\* rb, set - rb is canonical and denotes exactly the integers of set that
\* are not in rb; when rb is empty or misses set entirely the result
\* equals set.
C20_SetMinusRangeExact ==
    op = "sub_ois_cis" =>
        /\ IsCanonical(out)
        /\ IntsOf(out) = IntsOf(set) \ IntsOfRange(rb)
        /\ (CIS_is_empty(rb) \/ IntsOfRange(rb) \cap IntsOf(set) = {}) => out = set

\* rb takes the end of one interval and the start of the next
C20_Witness ==
    /\ op = "sub_ois_cis"
    /\ Len(set) >= 2
    /\ set[1].start < rb.start
    /\ rb.start <= set[1].end
    /\ set[2].start <= rb.end
    /\ rb.end < set[2].end
    /\ Len(out) = 2

\* C21 (as stated): range minus set: ra - set equals the result of taking
\* the ranges of set out of {ra} one at a time in order, is canonical and
\* denotes exactly the integers of ra that are not in set; with set empty,
\* or holding only empty ranges, the result is {ra}.
C21_RangeMinusSetKeepsRange ==
    op = "sub_cis_ois" =>
        LET RECURSIVE Step(_)
            Step(k) == IF k = 0 THEN OIS_from(<<ra>>)
                       ELSE sub_ois_cis(Step(k - 1), set[k])
        IN /\ out = Step(Len(set))
           /\ IsCanonical(out)
           /\ IntsOf(out) = IntsOfRange(ra) \ IntsOf(set)
           /\ set = OrderedIntegerSet_new => out = <<ra>>
           /\ \A e \in Ranges : CIS_is_empty(e) => sub_cis_ois(ra, <<e>>) = <<ra>>

\* C21 (amended): the same, but with set empty, or holding only empty
\* ranges, the result is {ra} when ra is non-empty and the set of no ranges
\* when ra is empty.
C21_RangeMinusSetExact ==
    op = "sub_cis_ois" =>
        LET RECURSIVE Step(_)
            Step(k) == IF k = 0 THEN OIS_from(<<ra>>)
                       ELSE sub_ois_cis(Step(k - 1), set[k])
            kept == IF CIS_is_empty(ra) THEN OrderedIntegerSet_new ELSE <<ra>>
        IN /\ out = Step(Len(set))
           /\ IsCanonical(out)
           /\ IntsOf(out) = IntsOfRange(ra) \ IntsOf(set)
           /\ set = OrderedIntegerSet_new => out = kept
           /\ \A e \in Ranges : CIS_is_empty(e) => sub_cis_ois(ra, <<e>>) = kept

\* ra reaches over two intervals of set and the gap between them remains
C21_Witness ==
    /\ op = "sub_cis_ois"
    /\ Len(set) >= 2
    /\ ra.start <= set[1].start
    /\ set[2].end <= ra.end
    /\ Len(out) >= 1
    /\ out[1].start = set[1].end + 1

\* C22: OrderedIntegerSet::intersect: for canonical sets A and B,
\* A.intersect(B) is canonical, denotes exactly the integers contained in
\* both, and equals B.intersect(A).
C22_IntersectExactSymmetric ==
    op = "intersect" =>
        /\ IsCanonical(out)
        /\ IntsOf(out) = IntsOf(set) \cap IntsOf(other)
        /\ out = OIS_intersect(other, set)

\* one interval of other meets two intervals of set
C22_Witness ==
    /\ op = "intersect"
    /\ Len(set) >= 2
    /\ \E j \in 1..Len(other) :
           /\ CIS_intersect(set[1], other[j]) # None
           /\ CIS_intersect(set[2], other[j]) # None
           /\ other[j].end < set[2].end
    /\ Len(out) >= 2

\* C23 (as stated): set minus set does not always return a fully coalesced
\* result: there are canonical L and R for which L - R holds adjacent but
\* unmerged fragments, so that a following coalesce_intervals_inplace
\* changes the interval sequence.
C23_SomeDifferenceUncoalesced ==
    \E L \in InputSets, R \in InputSets :
        OIS_coalesce_intervals_inplace(sub_ois_ois(L, R)) # sub_ois_ois(L, R)

\* C23 (amended): for all canonical L and R, L - R is canonical and a
\* following coalesce_intervals_inplace leaves the interval sequence
\* unchanged; the fragments are sorted, disjoint and non-adjacent already
\* before the final from_contiguous_integer_sets.
C23_DifferenceCoalesced ==
    op = "sub_ois_ois" =>
        /\ IsCanonical(out)
        /\ OIS_coalesce_intervals_inplace(out) = out
        /\ IsCanonical(SubSweep(set, other, 1, <<>>))

\* a fragment is left of each of two neighbouring left-hand ranges
C23_Witness ==
    /\ op = "sub_ois_ois"
    /\ Len(set) >= 2
    /\ Len(out) >= 2
    /\ out[1].start = set[1].start
    /\ out[1].end < set[1].end
    /\ out[2].start > set[2].start
    /\ out[2].end = set[2].end

\* C24: size() never returns a silently wrapped count: for an element type
\* of bounded width, whenever end - start + 1 of a non-empty range is not
\* representable in E (or as a usize), ContiguousIntegerSet::size,
\* OrderedIntegerSet::size and the size computation inside slice panic
\* instead of returning a number; a size that is returned is the number of
\* integers of the range.
C24_SizeNeverWraps ==
    LET unrepresentable ==
            ~CIS_is_empty(ra) /\ ra.end - ra.start + 1 > E_max(cfg.signed)
    IN /\ (op \in {"size_cis", "size_ois"} /\ unrepresentable) => panicked
       /\ (op \in {"size_cis", "size_ois"} /\ ~panicked) =>
              count = Cardinality(IntsOfRange(ra))
       /\ (op = "slice_E" /\ lo < hi /\ unrepresentable) => panicked

\* C28: range subtraction stays inside the element type: for a bounded
\* element type, ra - rb with rb.start equal to the type's minimum or
\* rb.end equal to its maximum computes c - 1 and d + 1 without underflow or
\* overflow and returns the exact set difference.
C28_SubtractionStaysInType ==
    (op = "sub_E" /\ (rb.start = E_min(cfg.signed) \/ rb.end = E_max(cfg.signed))) =>
        /\ ~panicked
        /\ IntsOf(out) = IntsOfRange(ra) \ IntsOfRange(rb)

\* C25: bridging insert: when collect(x) on a canonical set fills the
\* one-integer gap between interval i and interval i+1, the two are
\* replaced by one interval [start_i, end_{i+1}] and the number of intervals
\* decreases by exactly 1; in every other case the number of intervals
\* changes by 0 or +1; all intervals not touching x are left unchanged and
\* in the same order.
C25_BridgingInsert ==
    [][(op' = "collect" /\ IsCanonical(set)) =>
          LET x == item'
              n == Len(set)
              Bridges(i) == set[i].end + 1 = x /\ x + 1 = set[i + 1].start
              Touches(r) == r.start <= x + 1 /\ x <= r.end + 1
              Untouched(r) == ~Touches(r)
          IN /\ \A i \in 1..(n - 1) : Bridges(i) =>
                    set' = SubSeq(set, 1, i - 1)
                           \o <<ContiguousIntegerSet_new(set[i].start, set[i + 1].end)>>
                           \o SubSeq(set, i + 2, n)
             /\ (\A i \in 1..(n - 1) : ~Bridges(i)) => Len(set') \in {n, n + 1}
             /\ SelectSeq(set', Untouched) = SelectSeq(set, Untouched)]_vars

\* C26: the set-minus-set sweep equals the naive fold: for canonical L and
\* R the sweep, whose cursor into R only moves forward, gives the result of
\* taking every range of R out of L one after another with set-minus-range.
C26_SweepEqualsFold ==
    op = "sub_ois_ois" => out = FoldSub(set, other)

\* two ranges of other meet the first range of set and the second of them
\* reaches into the next range of set
C26_Witness ==
    /\ op = "sub_ois_ois"
    /\ Len(set) >= 2
    /\ Len(other) >= 2
    /\ CIS_intersect(set[1], other[1]) # None
    /\ CIS_intersect(set[1], other[2]) # None
    /\ CIS_intersect(set[2], other[2]) # None
    /\ out # OrderedIntegerSet_new

\* C27: insertion-order independence of collect: collecting a finite set
\* of points into an empty OrderedIntegerSet, in any order, ends in the
\* canonical form of that set of points.
C27_CollectOrderIndependent ==
    set = from_slice(SingletonPairs(elems))

\* C29: successive chunks partition the set: for canonical S and k >= 1
\* the slices S.slice(0..k), S.slice(k..2k), ... are pairwise disjoint,
\* their union is S, their iterations concatenated give S's iteration, and
\* a slice whose hi exceeds S.size() holds only the elements at ranks
\* lo..S.size().
C29_ChunksPartition ==
    (op = "slice" /\ lo < hi) =>
        LET k == hi - lo
            size == OIS_size(set)
            whole == IterateAll(set)
            n == (size + k - 1) \div k
            Chunk(j) == OIS_slice(j * k, (j + 1) * k, set)
            RECURSIVE Concat(_)
            Concat(j) == IF j >= n THEN <<>> ELSE IterateAll(Chunk(j)) \o Concat(j + 1)
        IN /\ IterateAll(out) = SubSeq(whole, lo + 1, min(hi, size))
           /\ (lo % k = 0) => out = Chunk(lo \div k)
           /\ \A i \in 0..(n - 1) : \A j \in (i + 1)..(n - 1) :
                  IntsOf(Chunk(i)) \cap IntsOf(Chunk(j)) = {}
           /\ UNION {IntsOf(Chunk(j)) : j \in 0..(n - 1)} = IntsOf(set)
           /\ Concat(0) = whole

\* the last of several chunks, cut short by the end of a set of two ranges
C29_Witness ==
    /\ op = "slice"
    /\ Len(set) >= 2
    /\ lo > 0
    /\ lo < hi
    /\ lo % (hi - lo) = 0
    /\ lo < OIS_size(set)
    /\ hi > OIS_size(set)
    /\ OIS_size(out) = OIS_size(set) - lo

\* C30: collect is idempotent on canonical sets: collecting a point the set
\* already contains leaves the interval sequence unchanged, and collect(x)
\* followed by collect(x) gives the same state as a single collect(x).
C30_CollectIdempotent ==
    [][(op' = "collect" /\ IsCanonical(set)) =>
          /\ item' \in IntsOf(set) => set' = set
          /\ collect(set', item') = set']_vars

\* a point inside an interval before the last has been collected: the scan
\* finds it, and collecting it once more changes nothing
C30_Witness ==
    /\ op = "collect"
    /\ IsCanonical(set)
    /\ Len(set) >= 2
    /\ set[1].start < item
    /\ item < set[1].end
    /\ collect(set, item) = set

\* C2: subtraction partition law for ranges: the integers of ra - rb and
\* the integers of ra.intersect(rb) (none when it is None) are disjoint and
\* their union is exactly the integers of ra.
C2_SubtractionPartition ==
    op = "sub_intersect" =>
        /\ IntsOf(out) \cap IntsOf(opt) = {}
        /\ IntsOf(out) \cup IntsOf(opt) = IntsOfRange(ra)

\* rb lies strictly inside ra: two pieces remain and the intersection is rb
C2_Witness ==
    /\ op = "sub_intersect"
    /\ ra.start < rb.start
    /\ rb.start <= rb.end
    /\ rb.end < ra.end
    /\ Len(out) = 2
    /\ opt = Some(rb)

\* C3: set-minus-set: for canonical L and R the integers denoted by L - R,
\* after coalesce_intervals_inplace, are exactly the integers of L that are
\* not in R, none missing, none extra, none covered twice.
C3_SetMinusSetExact ==
    op = "sub_ois_ois" =>
        LET c == OIS_coalesce_intervals_inplace(out)
        IN /\ IntsOf(c) = IntsOf(set) \ IntsOf(other)
           /\ OIS_size(c) = Cardinality(IntsOf(c))
           /\ IntsOf(out) = IntsOf(c)

\* one range of the right-hand set reaches into two ranges of the left-hand
\* set and something is left of each of them
C3_Witness ==
    /\ op = "sub_ois_ois"
    /\ IsCanonical(set)
    /\ IsCanonical(other)
    /\ \E j \in 1..Len(other) : \E i \in 1..(Len(set) - 1) :
           /\ CIS_intersect(set[i], other[j]) # None
           /\ CIS_intersect(set[i + 1], other[j]) # None
           /\ set[i].start < other[j].start
           /\ other[j].end < set[i + 1].end
    /\ Len(out) >= 2

\* C4: slicing law: for canonical S and lo < hi <= S.size(), iterating
\* S.slice(lo..hi) yields exactly the elements at ranks lo..hi-1 of the
\* iteration of S, and S.slice(lo..hi).size() = hi - lo.
C4_SlicingLaw ==
    (op = "slice" /\ IsCanonical(set) /\ lo < hi /\ hi <= OIS_size(set)) =>
        /\ IterateAll(out) = SubSeq(IterateAll(set), lo + 1, hi)
        /\ OIS_size(out) = hi - lo

\* a slice that starts inside one interval and ends inside a later one
C4_Witness ==
    /\ op = "slice"
    /\ IsCanonical(set)
    /\ Len(set) >= 2
    /\ 0 < lo
    /\ lo < CIS_size(set[1])
    /\ CIS_size(set[1]) < hi
    /\ hi < OIS_size(set)
    /\ Len(out) >= 2

\* C5: from_slice canonicalizes any input: for every list of pairs, in any
\* order, overlapping or adjacent, pairs with start > end included, the
\* result is canonical and denotes the union of the non-empty input pairs.
C5_FromSliceCanonicalizes ==
    op = "from_slice" =>
        /\ IsCanonical(set)
        /\ IntsOf(set) = UNION {pairs[k][1]..pairs[k][2] : k \in 1..Len(pairs)}

\* an unsorted input of two adjacent pairs around a pair with start > end,
\* merged into one range
C5_Witness ==
    /\ op = "from_slice"
    /\ Len(pairs) = 3
    /\ pairs[1][1] <= pairs[1][2]
    /\ pairs[2][1] > pairs[2][2]
    /\ pairs[3][1] <= pairs[3][2]
    /\ pairs[3][2] + 1 = pairs[1][1]
    /\ set = <<ContiguousIntegerSet_new(pairs[3][1], pairs[1][2])>>

\* C6: closure: for canonical operands the result of intersect,
\* set-minus-range, range-minus-set, set-minus-set and slice is canonical.
C6_ResultsCanonical ==
    (op \in {"intersect", "sub_ois_cis", "sub_cis_ois", "sub_ois_ois", "slice"}
        /\ IsCanonical(set) /\ IsCanonical(other)) => IsCanonical(out)

\* a range minus a set that splits it into two pieces
C6_Witness ==
    /\ op = "sub_cis_ois"
    /\ IsCanonical(set)
    /\ Len(set) >= 1
    /\ Len(out) = 2

\* C7: iterating [start, end] yields exactly start, start+1, ..., end in
\* ascending order (the first item yielded is start) and nothing when the
\* range is empty.
C7_RangeIterYieldsRange ==
    cstate = "done" => cyielded = Ascending(IntsOfRange(ra))

\* C8: iterating an OrderedIntegerSet yields every integer of every interval
\* exactly once, in strictly ascending order, then None; a fresh to_iter
\* starts again at the first element.
C8_SetIterAscendingOnce ==
    istate # "none" =>
        LET all == Ascending(IntsOf(iter.ordered_integer_set))
        IN /\ Len(yielded) <= Len(all)
           /\ yielded = SubSeq(all, 1, Len(yielded))
           /\ (istate = "done" => yielded = all)
           /\ (op = "to_iter" => yielded = <<>> /\ iter.ordered_integer_set = set)

\* an iteration over two intervals has returned None
C8_Witness ==
    /\ istate = "done"
    /\ Len(iter.ordered_integer_set) >= 2
    /\ Len(yielded) >= 3

\* C9: size() equals the number of items a full iteration produces, and is
\* the sum over the intervals of end - start + 1 (0 for an empty one).
C9_SizeEqualsIterationCount ==
    istate = "done" =>
        /\ OIS_size(iter.ordered_integer_set) = Len(yielded)
        /\ OIS_size(iter.ordered_integer_set) =
               Cardinality({<<k, x>> \in (1..Len(iter.ordered_integer_set)) \X (((0 - MaxNeg) - 2)..(MaxVal + 2)) :
                               CIS_contains(iter.ordered_integer_set[k], x)})

\* a full iteration of a from_slice set of two intervals, one of them longer
\* than one element
C9_Witness ==
    /\ istate = "done"
    /\ IsCanonical(iter.ordered_integer_set)
    /\ Len(iter.ordered_integer_set) = 2
    /\ OIS_size(iter.ordered_integer_set) >= 3


\* C10: collect(x) adds exactly x: after any sequence of collects the set
\* denotes the integers of the initial set and those collected, and
\* contains(y) is true exactly for those.
C10_CollectAddsExactlyItem ==
    /\ IntsOf(set) = elems
    /\ \A y \in ((0 - MaxNeg) - 2)..(MaxVal + 2) : OIS_contains(set, y) <=> y \in elems

\* a collect into the middle of a set of two intervals has happened
C10_Witness ==
    /\ op = "collect"
    /\ Len(set) >= 2
    /\ item < set[Len(set)].start
    /\ item \in elems
    /\ elems # {item}


=============================================================================
